---- MODULE Spec2Model ----
(***************************************************************************)
(* Hot Potato game contract (src/hotpotato/lib.rs).                        *)
(*                                                                         *)
(* The contract storage is five fields; the four messages start_game,      *)
(* pass_potato, check_deadline and end_game are one action each.  A        *)
(* message that panics (assert!, assert_eq!, arithmetic overflow) is       *)
(* reverted by the host: it leaves the storage as it was and is recorded   *)
(* in last_call with the failure it reported.  The panic messages are      *)
(* named after the error kinds they stand for:                             *)
(*   "Game already active"  -> GameAlreadyActive                           *)
(*   "Game not active"      -> GameNotActive                               *)
(*   "Not current holder"   -> NotCurrentHolder                            *)
(*   "Deadline passed"      -> DeadlinePassed                              *)
(*   "Only starter can end" -> NotGameStarter                              *)
(* Block numbers are unsigned integers of BlockNumberBits bits (u32 in the *)
(* source, narrowed here so that the overflow of                           *)
(* last_passed_block + deadline_blocks is within reach).   What the `+`     *)
(* does on overflow depends on the build: it panics when overflow checks   *)
(* are compiled in and wraps otherwise; overflow_checks is the build's     *)
(* choice, fixed for a whole behaviour.                                    *)
(***************************************************************************)
EXTENDS Integers, Sequences, FiniteSets, TLC

\* ---------------------------------------------------------------- bounds
BlockNumberBits == 2
NumAccounts == 2

\* ------------------------------------------------------ program constants
AddressLen == 20
AccountIdLen == 32

\* ------------------------------------------------------------- data types
U32_MAX == 2 ^ BlockNumberBits - 1

\* caller addresses (H160): the byte b repeated 20 times, as default_accounts
Address == {[i \in 1..AddressLen |-> b] : b \in 1..NumAccounts}

\* AccountId values given as `to`: the byte b repeated 32 times (as the tests
\* build them), and the 20 bytes of an address followed by zero bytes
AccountId ==
    {[i \in 1..AccountIdLen |-> b] : b \in 1..NumAccounts}
    \cup {[i \in 1..AccountIdLen |-> IF i <= AddressLen THEN b ELSE 0] :
             b \in 1..NumAccounts}

\* Option<T>
None == <<>>
Some(x) == <<x>>

\* the deadline windows new() is called with
DeadlineBlocksChoices == {0, 2, U32_MAX}

VARIABLES
    current_holder,     \* Option<AccountId>
    last_passed_block,  \* u32
    deadline_blocks,    \* u32
    active,             \* bool
    game_starter,       \* Option<AccountId>
    block_number,       \* self.env().block_number()
    overflow_checks,    \* whether the build panics on arithmetic overflow
    new_deadline_blocks, \* the argument new() was called with
    last_call,          \* the most recent message and what it returned
    deadline_resolved   \* check_deadline returned true and no game started since

storage ==
    <<current_holder, last_passed_block, deadline_blocks, active, game_starter>>

vars ==
    <<current_holder, last_passed_block, deadline_blocks, active, game_starter,
      block_number, overflow_checks, new_deadline_blocks, last_call,
      deadline_resolved>>

NoCall == [op |-> "none", caller |-> <<>>, to |-> <<>>, res |-> "none"]
\* the events a message emits: every self.env().emit_event(..) is commented out
emitted_events(op) == <<>>

Call(op, caller, to, res) ==
    [op |-> op, caller |-> caller, to |-> to, res |-> res,
     events |-> emitted_events(op)]

\* ---------------------------------------------------------------- helpers
\* let mut account_id = [0u8; 32]; account_id[..20].copy_from_slice(caller)
account_id(caller) ==
    [i \in 1..AccountIdLen |-> IF i <= AddressLen THEN caller[i] ELSE 0]

\* the conversion, tabulated over the callers of the model
AccountIdOf == [caller \in Address |-> account_id(caller)]

caller_to_account_id(caller) == AccountIdOf[caller]

\* u32 `+`: the exact sum leaves the type
AddOverflows(a, b) == a + b > U32_MAX
\* u32 `+` in a build without overflow checks
WrappingAdd(a, b) == (a + b) % (U32_MAX + 1)

\* current_block <= self.last_passed_block + self.deadline_blocks
DeadlineNotPassed ==
    block_number <= WrappingAdd(last_passed_block, deadline_blocks)

\* mutant: the comparison is the wrong way round
DeadlineExpired_inverted ==
    block_number < WrappingAdd(last_passed_block, deadline_blocks)

\* current_block > self.last_passed_block + self.deadline_blocks
DeadlineExpired ==
    block_number > WrappingAdd(last_passed_block, deadline_blocks)

\* mutant: the reset forgets the starter
reset_game_keeps_starter ==
    /\ current_holder' = None
    /\ active' = FALSE
    /\ game_starter' = game_starter

reset_game ==
    /\ current_holder' = None
    /\ active' = FALSE
    /\ game_starter' = None

\* a message that panicked or returned without writing
NoWrite(op, caller, to, res) ==
    /\ last_call' = Call(op, caller, to, res)
    /\ UNCHANGED <<storage, block_number, overflow_checks,
                   new_deadline_blocks, deadline_resolved>>

\* ------------------------------------------------------------------- Init
Init ==
    /\ new_deadline_blocks \in DeadlineBlocksChoices
    /\ current_holder = None
    /\ last_passed_block = 0
    /\ deadline_blocks = new_deadline_blocks
    /\ active = FALSE
    /\ game_starter = None
    /\ block_number = 0
    /\ overflow_checks \in BOOLEAN
    /\ last_call = NoCall
    /\ deadline_resolved = FALSE

\* ---------------------------------------------------------------- actions
\* mutant: a game whose deadline has expired may be started over
start_game_result_restart_expired ==
    IF active /\ DeadlineNotPassed THEN "GameAlreadyActive" ELSE "Ok"

start_game_result ==
    IF active THEN "GameAlreadyActive" ELSE "Ok"

\* mutant: the recipient is recorded as the starter
start_game_starter_is_recipient(caller, to) ==
    IF start_game_result # "Ok"
    THEN NoWrite("start_game", caller, to, start_game_result)
    ELSE /\ current_holder' = Some(to)
         /\ last_passed_block' = block_number
         /\ active' = TRUE
         /\ game_starter' = Some(to)
         /\ last_call' = Call("start_game", caller, to, "Ok")
         /\ deadline_resolved' = FALSE
         /\ UNCHANGED <<deadline_blocks, block_number, overflow_checks,
                        new_deadline_blocks>>

start_game(caller, to) ==
    IF start_game_result # "Ok"
    THEN NoWrite("start_game", caller, to, start_game_result)
    ELSE /\ current_holder' = Some(to)
         /\ last_passed_block' = block_number
         /\ active' = TRUE
         /\ game_starter' = Some(caller_to_account_id(caller))
         /\ last_call' = Call("start_game", caller, to, "Ok")
         /\ deadline_resolved' = FALSE
         /\ UNCHANGED <<deadline_blocks, block_number, overflow_checks,
                        new_deadline_blocks>>

\* mutant: the deadline assertion is missing
pass_potato_result_no_deadline(caller) ==
    IF ~active THEN "GameNotActive"
    ELSE IF current_holder # Some(caller_to_account_id(caller))
    THEN "NotCurrentHolder"
    ELSE "Ok"

pass_potato_result(caller) ==
    IF ~active THEN "GameNotActive"
    ELSE IF current_holder # Some(caller_to_account_id(caller))
    THEN "NotCurrentHolder"
    ELSE IF overflow_checks /\ AddOverflows(last_passed_block, deadline_blocks)
    THEN "ArithmeticOverflow"
    ELSE IF ~DeadlineNotPassed THEN "DeadlinePassed"
    ELSE "Ok"

\* mutant: the tick is stored before the deadline is checked, and stays
pass_potato_writes_before_check(caller, to) ==
    IF pass_potato_result(caller) = "DeadlinePassed"
    THEN /\ last_passed_block' = block_number
         /\ last_call' = Call("pass_potato", caller, to, "DeadlinePassed")
         /\ UNCHANGED <<current_holder, deadline_blocks, active, game_starter,
                        block_number, overflow_checks, new_deadline_blocks,
                        deadline_resolved>>
    ELSE IF pass_potato_result(caller) # "Ok"
    THEN NoWrite("pass_potato", caller, to, pass_potato_result(caller))
    ELSE /\ current_holder' = Some(to)
         /\ last_passed_block' = block_number
         /\ last_call' = Call("pass_potato", caller, to, "Ok")
         /\ UNCHANGED <<deadline_blocks, active, game_starter, block_number,
                        overflow_checks, new_deadline_blocks, deadline_resolved>>

\* mutant: a pass hands the potato over but does not restart the countdown
pass_potato_keeps_tick(caller, to) ==
    IF pass_potato_result(caller) # "Ok"
    THEN NoWrite("pass_potato", caller, to, pass_potato_result(caller))
    ELSE /\ current_holder' = Some(to)
         /\ last_call' = Call("pass_potato", caller, to, "Ok")
         /\ UNCHANGED <<last_passed_block, deadline_blocks, active,
                        game_starter, block_number, overflow_checks, new_deadline_blocks,
                        deadline_resolved>>

\* mutant: the remaining blocks are stored in place of the current block
pass_potato_stores_remaining(caller, to) ==
    IF pass_potato_result(caller) # "Ok"
    THEN NoWrite("pass_potato", caller, to, pass_potato_result(caller))
    ELSE /\ current_holder' = Some(to)
         /\ last_passed_block' =
               IF WrappingAdd(last_passed_block, deadline_blocks) >= block_number
               THEN WrappingAdd(last_passed_block, deadline_blocks) - block_number
               ELSE 0
         /\ last_call' = Call("pass_potato", caller, to, "Ok")
         /\ UNCHANGED <<deadline_blocks, active, game_starter, block_number,
                        overflow_checks, new_deadline_blocks, deadline_resolved>>

\* mutant: a pass also writes the blocks that were left as the new window
pass_potato_shrinks_window(caller, to) ==
    IF pass_potato_result(caller) # "Ok"
    THEN NoWrite("pass_potato", caller, to, pass_potato_result(caller))
    ELSE /\ current_holder' = Some(to)
         /\ last_passed_block' = block_number
         /\ deadline_blocks' =
               IF WrappingAdd(last_passed_block, deadline_blocks) >= block_number
               THEN WrappingAdd(last_passed_block, deadline_blocks) - block_number
               ELSE 0
         /\ last_call' = Call("pass_potato", caller, to, "Ok")
         /\ UNCHANGED <<active, game_starter, block_number, overflow_checks,
                        new_deadline_blocks, deadline_resolved>>

pass_potato(caller, to) ==
    IF pass_potato_result(caller) # "Ok"
    THEN NoWrite("pass_potato", caller, to, pass_potato_result(caller))
    ELSE /\ current_holder' = Some(to)
         /\ last_passed_block' = block_number
         /\ last_call' = Call("pass_potato", caller, to, "Ok")
         /\ UNCHANGED <<deadline_blocks, active, game_starter, block_number,
                        overflow_checks, new_deadline_blocks, deadline_resolved>>

\* mutant: the early return for an inactive game is missing
check_deadline_result_no_active_guard ==
    IF overflow_checks /\ AddOverflows(last_passed_block, deadline_blocks)
    THEN "ArithmeticOverflow"
    ELSE IF DeadlineExpired THEN "true"
    ELSE "false"

check_deadline_result ==
    IF ~active THEN "false"
    ELSE IF overflow_checks /\ AddOverflows(last_passed_block, deadline_blocks)
    THEN "ArithmeticOverflow"
    ELSE IF DeadlineExpired
    THEN (IF current_holder = None THEN "UnwrapOnNone" ELSE "true")
    ELSE "false"

\* check_deadline never reads the caller
check_deadline ==
    IF check_deadline_result # "true"
    THEN NoWrite("check_deadline", <<>>, <<>>, check_deadline_result)
    ELSE /\ reset_game
         /\ last_call' = Call("check_deadline", <<>>, <<>>, "true")
         /\ deadline_resolved' = TRUE
         /\ UNCHANGED <<last_passed_block, deadline_blocks, block_number,
                        overflow_checks, new_deadline_blocks>>

\* mutant: the caller is compared with the holder instead of the starter
end_game_result_checks_holder(caller) ==
    IF ~active THEN "GameNotActive"
    ELSE IF current_holder # Some(caller_to_account_id(caller))
    THEN "NotGameStarter"
    ELSE "Ok"

end_game_result(caller) ==
    IF ~active THEN "GameNotActive"
    ELSE IF game_starter # Some(caller_to_account_id(caller))
    THEN "NotGameStarter"
    ELSE "Ok"

end_game(caller) ==
    IF end_game_result(caller) # "Ok"
    THEN NoWrite("end_game", caller, <<>>, end_game_result(caller))
    ELSE /\ reset_game
         /\ last_call' = Call("end_game", caller, <<>>, "Ok")
         /\ UNCHANGED <<last_passed_block, deadline_blocks, block_number,
                        overflow_checks, new_deadline_blocks, deadline_resolved>>

\* u32::saturating_sub
saturating_sub(a, b) == IF a >= b THEN a - b ELSE 0

\* a query that returned value
Returned(op, value) ==
    [op |-> op, caller |-> <<>>, to |-> <<>>, res |-> "Ok", value |-> value]

get_remaining_blocks_result ==
    IF ~active THEN "Ok"
    ELSE IF overflow_checks /\ AddOverflows(last_passed_block, deadline_blocks)
    THEN "ArithmeticOverflow"
    ELSE "Ok"

get_remaining_blocks_value ==
    IF ~active THEN 0
    ELSE saturating_sub(WrappingAdd(last_passed_block, deadline_blocks),
                        block_number)

\* get_remaining_blocks never reads the caller
get_remaining_blocks ==
    IF get_remaining_blocks_result # "Ok"
    THEN NoWrite("get_remaining_blocks", <<>>, <<>>, get_remaining_blocks_result)
    ELSE /\ last_call' = Returned("get_remaining_blocks",
                                  get_remaining_blocks_value)
         /\ UNCHANGED <<storage, block_number, overflow_checks, new_deadline_blocks,
                        deadline_resolved>>

get_holder == current_holder

is_active == active

get_deadline_blocks == deadline_blocks

\* the host produces the next block
advance_block ==
    /\ block_number < U32_MAX
    /\ block_number' = block_number + 1
    /\ last_call' = NoCall
    /\ UNCHANGED <<storage, overflow_checks, new_deadline_blocks,
                   deadline_resolved>>

StartGame == \E caller \in Address, to \in AccountId : start_game(caller, to)
PassPotato == \E caller \in Address, to \in AccountId : pass_potato(caller, to)
EndGame == \E caller \in Address : end_game(caller)

Next ==
    \/ StartGame
    \/ PassPotato
    \/ check_deadline
    \/ EndGame
    \/ get_remaining_blocks
    \/ advance_block

Spec == Init /\ [][Next]_vars

\* blocks keep being produced and check_deadline keeps being called
SpecFair ==
    /\ Init
    /\ [][Next]_vars
    /\ WF_vars(advance_block)
    /\ WF_vars(check_deadline)

TypeOK ==
    /\ current_holder \in {None} \cup {Some(a) : a \in AccountId}
    /\ game_starter \in {None} \cup {Some(caller_to_account_id(c)) : c \in Address}
    /\ last_passed_block \in 0..U32_MAX
    /\ deadline_blocks \in 0..U32_MAX
    /\ block_number \in 0..U32_MAX
    /\ active \in BOOLEAN
    /\ overflow_checks \in BOOLEAN
    /\ deadline_resolved \in BOOLEAN

\* ================================================================= claims
\* the exact bound last_passed_block + deadline_blocks, as an integer
DeadlineBound == last_passed_block + deadline_blocks

\* the account whose 20 address bytes are the first 20 bytes of id
IssuedBy(caller, id) == \A i \in 1..AddressLen : caller[i] = id[i]

ErrorKinds ==
    {"GameAlreadyActive", "GameNotActive", "NotCurrentHolder", "DeadlinePassed",
     "NotGameStarter"}

\* C1: in every reachable state, active = false, current_holder = None and
\* game_starter = None are all true or all false together; an active game
\* has a holder.
C1_InactiveIffNoHolderIffNoStarter ==
    /\ (active = FALSE) <=> (current_holder = None)
    /\ (current_holder = None) <=> (game_starter = None)
    /\ active => current_holder # None

C1_Witness ==
    /\ active
    /\ last_call.op = "pass_potato"
    /\ last_call.res = "Ok"
    /\ current_holder # None
    /\ game_starter # None

\* C2: in an active game whose deadline has not passed, with holder X, a
\* pass_potato issued by account X succeeds and one issued by any other
\* account fails with NotCurrentHolder, for every AccountId X given as `to`.
\* (Stated for the states where the deadline bound is representable.)
C2_HolderAccountCanPass ==
    [][ (/\ last_call'.op = "pass_potato"
         /\ active
         /\ current_holder # None
         /\ DeadlineBound <= U32_MAX
         /\ block_number <= DeadlineBound)
        => IF IssuedBy(last_call'.caller, current_holder[1])
           THEN last_call'.res = "Ok"
           ELSE last_call'.res = "NotCurrentHolder" ]_vars

\* C3: a pass_potato by the current holder of an active game at tick t
\* succeeds for every t <= last_passed_block + deadline_blocks and fails with
\* DeadlinePassed for every t >= last_passed_block + deadline_blocks + 1.
C3_DeadlineBoundary ==
    [][ (/\ last_call'.op = "pass_potato"
         /\ active
         /\ current_holder = Some(caller_to_account_id(last_call'.caller)))
        => /\ (block_number <= DeadlineBound) => last_call'.res = "Ok"
           /\ (block_number >= DeadlineBound + 1)
                  => last_call'.res = "DeadlinePassed" ]_vars

\* C4: pass_potato reports the first failing check in the order active,
\* caller = holder, deadline: GameNotActive whenever inactive,
\* NotCurrentHolder whenever active and the caller is not the holder, and
\* DeadlinePassed only when active, the caller is the holder and the tick is
\* past the deadline.
C4_CheckOrder ==
    [][ (last_call'.op = "pass_potato")
        => /\ ~active => last_call'.res = "GameNotActive"
           /\ (active /\ current_holder
                           # Some(caller_to_account_id(last_call'.caller)))
                  => last_call'.res = "NotCurrentHolder"
           /\ last_call'.res = "DeadlinePassed"
                  => /\ active
                     /\ current_holder
                           = Some(caller_to_account_id(last_call'.caller))
                     /\ block_number > DeadlineBound ]_vars

C6_StartGameWhileActive ==
    [][ (last_call'.op = "start_game" /\ active)
        => /\ last_call'.res = "GameAlreadyActive"
           /\ current_holder' = current_holder
           /\ game_starter' = game_starter
           /\ last_passed_block' = last_passed_block
           /\ active' = TRUE ]_vars

C6_Witness ==
    /\ last_call.op = "start_game"
    /\ last_call.res = "GameAlreadyActive"
    /\ active
    /\ block_number > DeadlineBound

\* C7: check_deadline returns true and resets the game exactly when the game
\* is active and the tick is strictly greater than
\* last_passed_block + deadline_blocks; otherwise it returns false and changes
\* no field.
C7_CheckDeadline ==
    [][ (last_call'.op = "check_deadline")
        => IF active /\ block_number > DeadlineBound
           THEN /\ last_call'.res = "true"
                /\ active' = FALSE
                /\ current_holder' = None
                /\ game_starter' = None
           ELSE /\ last_call'.res = "false"
                /\ storage' = storage ]_vars

\* C8: after the deadline of an active game has expired, the first
\* check_deadline returns true and resets the game; every later check_deadline
\* with no start_game in between returns false, and the state stays as the
\* first call left it whatever the clock does.
C8_CheckDeadlineIdempotent ==
    [][ /\ (/\ last_call'.op = "check_deadline"
            /\ active
            /\ block_number > DeadlineBound)
           => /\ last_call'.res = "true"
              /\ active' = FALSE
              /\ current_holder' = None
              /\ game_starter' = None
              /\ deadline_resolved'
        /\ (deadline_resolved /\ last_call'.op = "check_deadline")
           => last_call'.res = "false"
        /\ (deadline_resolved /\ deadline_resolved')
           => storage' = storage ]_vars

C8_Witness ==
    /\ deadline_resolved
    /\ last_call.op = "check_deadline"
    /\ last_call.res = "false"
    /\ ~active
    /\ block_number > DeadlineBound + 1

\* C9: end_game fails with GameNotActive when no game is active; in an active
\* game it fails with NotGameStarter and changes nothing when the caller is
\* not the starter (even if the caller is the holder); when the caller is the
\* starter it resets the game at any tick.
C9_EndGame ==
    [][ (last_call'.op = "end_game")
        => IF ~active
           THEN /\ last_call'.res = "GameNotActive"
                /\ storage' = storage
           ELSE IF game_starter # Some(caller_to_account_id(last_call'.caller))
           THEN /\ last_call'.res = "NotGameStarter"
                /\ storage' = storage
           ELSE /\ last_call'.res = "Ok"
                /\ active' = FALSE
                /\ current_holder' = None
                /\ game_starter' = None ]_vars

C9_Witness ==
    /\ last_call.op = "end_game"
    /\ last_call.res = "NotGameStarter"
    /\ active
    /\ current_holder = Some(caller_to_account_id(last_call.caller))
    /\ game_starter # current_holder

\* C10: a start_game, pass_potato or end_game call that fails with one of the
\* five error kinds leaves all five state fields as they were, and every
\* operation afterwards has the result it would have had without the call.
C10_FailedCallLeavesState ==
    [][ (/\ last_call'.op \in {"start_game", "pass_potato", "end_game"}
         /\ last_call'.res \in ErrorKinds)
        => /\ current_holder' = current_holder
           /\ last_passed_block' = last_passed_block
           /\ deadline_blocks' = deadline_blocks
           /\ active' = active
           /\ game_starter' = game_starter
           /\ start_game_result' = start_game_result
           /\ check_deadline_result' = check_deadline_result
           /\ \A c \in Address :
                 /\ pass_potato_result(c)' = pass_potato_result(c)
                 /\ end_game_result(c)' = end_game_result(c) ]_vars

C10_Witness ==
    /\ last_call.op = "pass_potato"
    /\ last_call.res = "DeadlinePassed"
    /\ active
    /\ last_passed_block < block_number

\* C11: a successful pass_potato(to) at tick t sets current_holder to Some(to)
\* and last_passed_block to t, and leaves game_starter, active (true) and
\* deadline_blocks unchanged.
C11_PassPotatoEffects ==
    [][ (last_call'.op = "pass_potato" /\ last_call'.res = "Ok")
        => /\ current_holder' = Some(last_call'.to)
           /\ last_passed_block' = block_number
           /\ game_starter' = game_starter
           /\ active /\ active'
           /\ deadline_blocks' = deadline_blocks ]_vars

C11_Witness ==
    /\ last_call.op = "pass_potato"
    /\ last_call.res = "Ok"
    /\ current_holder = Some(last_call.to)
    /\ current_holder # Some(caller_to_account_id(last_call.caller))
    /\ last_passed_block = block_number
    /\ block_number > 0
    /\ active

\* C12: get_remaining_blocks returns 0 whenever the game is inactive and
\* otherwise max(0, last_passed_block + deadline_blocks - current tick); it is
\* never negative, is 0 at every tick at or after the deadline bound, and
\* does not change the state.
C12_RemainingBlocks ==
    [][ (last_call'.op = "get_remaining_blocks")
        => /\ last_call'.res = "Ok"
           /\ last_call'.value
                 = (IF ~active THEN 0
                    ELSE IF DeadlineBound >= block_number
                    THEN DeadlineBound - block_number
                    ELSE 0)
           /\ last_call'.value >= 0
           /\ (block_number >= DeadlineBound) => last_call'.value = 0
           /\ storage' = storage ]_vars

\* C13: active goes from false to true only by a successful start_game, and
\* from true to false only by a check_deadline on an expired game or an
\* end_game by the starter; nothing else changes it, and start_game succeeds
\* again after every reset.
C13_ActiveTransitions ==
    [][ /\ (~active /\ active')
           => /\ last_call'.op = "start_game"
              /\ last_call'.res = "Ok"
        /\ (active /\ ~active')
           => \/ /\ last_call'.op = "check_deadline"
                 /\ last_call'.res = "true"
                 /\ block_number > DeadlineBound
              \/ /\ last_call'.op = "end_game"
                 /\ last_call'.res = "Ok"
                 /\ game_starter = Some(caller_to_account_id(last_call'.caller))
        /\ (~active /\ last_call'.op = "start_game")
           => /\ last_call'.res = "Ok"
              /\ active' ]_vars

\* C14: while a single game stays active, last_passed_block never decreases
\* from one state to the next (the block number never decreases).
C14_LastPassedBlockMonotone ==
    [][ /\ block_number' >= block_number
        /\ (active /\ active') => last_passed_block' >= last_passed_block ]_vars

C14_Witness ==
    /\ active
    /\ last_call.op = "pass_potato"
    /\ last_call.res = "Ok"
    /\ last_passed_block >= 2
    /\ deadline_blocks > 0

\* C15: immediately after new(w), is_active() = false, get_holder() = None
\* and get_deadline_blocks() = w; get_deadline_blocks() returns w in every
\* reachable state (no operation changes the deadline window).
C15_NewAndFixedWindow ==
    /\ (last_call = NoCall /\ block_number = 0)
          => (is_active = FALSE /\ get_holder = None)
    /\ get_deadline_blocks = new_deadline_blocks

C15_Witness ==
    /\ last_call.op = "check_deadline"
    /\ last_call.res = "true"
    /\ last_passed_block > 0
    /\ get_deadline_blocks = new_deadline_blocks
    /\ get_deadline_blocks > 0

\* C16: pass_potato does not validate the recipient: a call by the current
\* holder with `to` equal to the holder itself, before the deadline, succeeds,
\* leaves current_holder unchanged and sets last_passed_block to the current
\* tick.
C16_SelfPassRenews ==
    [][ (/\ last_call'.op = "pass_potato"
         /\ active
         /\ current_holder = Some(caller_to_account_id(last_call'.caller))
         /\ last_call'.to = caller_to_account_id(last_call'.caller)
         /\ block_number <= DeadlineBound)
        => /\ last_call'.res = "Ok"
           /\ current_holder' = current_holder
           /\ last_passed_block' = block_number ]_vars

\* C17: every successful start_game call and every successful pass_potato
\* call emits at least one event.
C17_SuccessEmitsEvent ==
    (last_call.op \in {"start_game", "pass_potato"} /\ last_call.res = "Ok")
        => Len(last_call.events) >= 1

\* C18: once an active game is at a tick strictly greater than
\* last_passed_block + deadline_blocks, it stays active and expired with the
\* same holder, starter and last_passed_block, every pass_potato fails and the
\* deadline does not fire on its own: the state changes only when
\* check_deadline is called (and returns true) or the starter calls end_game.
C18_ExpiryStableUntilResolved ==
    [][ (active /\ block_number > DeadlineBound)
        => /\ (last_call'.op = "pass_potato") => last_call'.res \in ErrorKinds
           /\ (last_call'.op = "check_deadline") => last_call'.res = "true"
           /\ (storage' # storage)
                 => /\ ~active'
                    /\ \/ /\ last_call'.op = "check_deadline"
                          /\ last_call'.res = "true"
                       \/ /\ last_call'.op = "end_game"
                          /\ last_call'.res = "Ok"
                          /\ game_starter
                               = Some(caller_to_account_id(last_call'.caller))
           /\ (storage' = storage)
                 => (active' /\ block_number' > DeadlineBound') ]_vars

C18_Witness ==
    /\ active
    /\ block_number > DeadlineBound + 1
    /\ last_call.op = "pass_potato"
    /\ last_call.res = "DeadlinePassed"
    /\ current_holder = Some(caller_to_account_id(last_call.caller))

\* C19: the bound last_passed_block + deadline_blocks is the exact integer sum
\* for every u32 operand: when it exceeds the largest u32 the addition neither
\* traps nor wraps, so the holder's pass within the window succeeds,
\* check_deadline returns false before expiry and get_remaining_blocks
\* returns a value.
C19_ExactDeadlineBound ==
    [][ (active /\ DeadlineBound > U32_MAX)
        => /\ (/\ last_call'.op = "pass_potato"
               /\ current_holder
                     = Some(caller_to_account_id(last_call'.caller)))
                 => last_call'.res = "Ok"
           /\ (last_call'.op = "check_deadline") => last_call'.res = "false"
           /\ (last_call'.op = "get_remaining_blocks")
                 => last_call'.res = "Ok" ]_vars

\* C20: under weak fairness of the clock and of check_deadline, an active game
\* whose tick has passed last_passed_block + deadline_blocks (no pass can
\* succeed from then on) eventually becomes inactive with no holder.
C20_ForfeitureEventually ==
    (active /\ block_number > DeadlineBound)
        ~> (~active /\ current_holder = None)

C20_Witness ==
    /\ ~active
    /\ current_holder = None
    /\ deadline_resolved
    /\ last_call.op = "check_deadline"
    /\ last_call.res = "true"
    /\ block_number > DeadlineBound
====
